---- MODULE Spec2Model ----
(***************************************************************************)
(* A model of picture_frame.py: the PictureFrame widget (slideshow state,  *)
(* frame aperture detection, paint mode selection, cover scaling, context  *)
(* menu, timer and mouse handlers).                                        *)
(*                                                                         *)
(* Python indices are kept 0-based in the state (index,                    *)
(* current_frame_index, row and column numbers); TLA+ sequences are        *)
(* 1-based, so element i of a Python list l is l[i + 1] here.              *)
(* A float ratio n / d is kept as the pair <<n, d>> and compared by cross  *)
(* multiplication.                                                         *)
(***************************************************************************)
EXTENDS Integers, Sequences, FiniteSets, TLC

(***************************************************************************)
(* Bounds of the model.                                                    *)
(***************************************************************************)
\* Largest frame image width and height enumerated for the detector.
MaxW == 3
MaxH == 2
\* Largest number of frame files in the Frames folder.
MaxFrames == 2
\* Number of distinct photo files that can be in a pictures folder.
MaxPhotos == 2
\* Largest side of a photo and of a photo rectangle in the cover scaling.
MaxDim == 4

(***************************************************************************)
(* Program constants.                                                      *)
(***************************************************************************)
transparent_threshold == 250
\* self.resize(520, 380)
InitialWidth == 520
InitialHeight == 380
\* max(240, ...), max(180, ...) in mouseMoveEvent
MinWidth == 240
MinHeight == 180
\* The resize area: the bottom-right 40 pixels.
GripSize == 40

\* Alpha values a frame pixel takes in the model: fully transparent, just
\* below the threshold (transparent but non-zero), fully opaque.
AlphaValues == {0, 249, 255}

VARIABLES
    pc,                 \* position in the program: __init__ steps, event loop
    frames_folder_exists, \* disk: whether the Frames directory exists
    frame_files,        \* disk: frame path -> image file, the matching files
    frames,             \* self.frames
    current_frame_index,\* self.current_frame_index
    use_custom_frame,   \* self.use_custom_frame
    frame_photo_areas,  \* self.frame_photo_areas
    images,             \* self.images
    index,              \* self.index
    is_locked,          \* self.is_locked
    is_topmost,         \* self.is_topmost
    click_through,      \* self.click_through
    attached_to_desktop,\* self.attached_to_desktop
    dragging,           \* self.dragging
    drag_offset,        \* self.drag_offset
    resizing,           \* self._resizing: "unset" until first assigned
    resize_origin,      \* self._resize_origin (<<>> until assigned)
    start_size,         \* self._start_size (<<>> until assigned)
    win_pos,            \* top-left corner of the window (frameGeometry)
    win_size,           \* self.size()
    handler,            \* the method (or menu action) that ran last
    raised,             \* the exception it raised, "none" if it returned
    paint_mode,         \* the mode the last paintEvent drew in, else "none"
    photo_drawn,        \* whether the last paintEvent drew the photo layer
    index_trail,        \* history: index after each next_image since the
                        \* last load_images (the last TrailLen values)
    photo_rect_size,    \* cover scaling: photo_rect.size()
    pix_size,           \* cover scaling: the size of the decoded photo
    scaled_size,        \* cover scaling: scaled.size() (<<>> before the draw)
    crop                \* cover scaling: the rectangle scaled.copy returns

diskVars == <<frames_folder_exists, frame_files>>
frameVars == <<frames, current_frame_index, use_custom_frame, frame_photo_areas>>
photoVars == <<images, index, index_trail>>
flagVars == <<is_locked, is_topmost, click_through, attached_to_desktop>>
mouseVars == <<dragging, drag_offset, resizing, resize_origin, start_size>>
geomVars == <<win_pos, win_size>>
obsVars == <<handler, raised, paint_mode, photo_drawn>>
coverVars == <<photo_rect_size, pix_size, scaled_size, crop>>

vars == <<pc, diskVars, frameVars, photoVars, flagVars, mouseVars, geomVars,
          obsVars, coverVars>>

(***************************************************************************)
(* Helpers.                                                                *)
(***************************************************************************)
Min(S) == CHOOSE x \in S : \A y \in S : x <= y
Max(S) == CHOOSE x \in S : \A y \in S : x >= y

\* sorted(files): the ascending list of a set of paths (paths are numbers,
\* their numeric order standing for the lexicographic order of the names).
RECURSIVE sorted(_)
sorted(S) == IF S = {} THEN <<>> ELSE <<Min(S)>> \o sorted(S \ {Min(S)})

\* An image file: whether Image.open/convert succeeds, and its alpha channel
\* as a list of rows (numpy shape (height, width)).
CorruptFile == [decodes |-> FALSE, alpha |-> <<>>]
ImageFile(a) == [decodes |-> TRUE, alpha |-> a]

Height(alpha) == Len(alpha)
Width(alpha) == Len(alpha[1])

(***************************************************************************)
(* Frame aperture detection: calculate_frame_photo_area.                   *)
(***************************************************************************)
\* alpha.getbbox(): the bounding box (left, upper, right, lower) of the
\* non-zero pixels, or None (here <<>>) when every pixel is zero.
getbbox(alpha) ==
    LET nzcols == {c \in 0..(Width(alpha) - 1) :
                      \E r \in 0..(Height(alpha) - 1) : alpha[r + 1][c + 1] # 0}
        nzrows == {r \in 0..(Height(alpha) - 1) :
                      \E c \in 0..(Width(alpha) - 1) : alpha[r + 1][c + 1] # 0}
    IN IF nzcols = {} THEN <<>>
       ELSE <<Min(nzcols), Min(nzrows), Max(nzcols) + 1, Max(nzrows) + 1>>

\* np.where(np.mean(alpha_array < transparent_threshold, axis=1) > 0.5)[0]
transparent_rows(alpha) ==
    {r \in 0..(Height(alpha) - 1) :
        2 * Cardinality({c \in 0..(Width(alpha) - 1) :
                            alpha[r + 1][c + 1] < transparent_threshold})
          > Width(alpha)}

\* np.where(np.mean(alpha_array < transparent_threshold, axis=0) > 0.5)[0]
transparent_cols(alpha) ==
    {c \in 0..(Width(alpha) - 1) :
        2 * Cardinality({r \in 0..(Height(alpha) - 1) :
                            alpha[r + 1][c + 1] < transparent_threshold})
          > Height(alpha)}

\* The locals top, bottom, left, right of the scan.
scan(alpha) ==
    LET rows == transparent_rows(alpha)
        cols == transparent_cols(alpha)
    IN [top    |-> IF rows # {} THEN Min(rows) ELSE 0,
        bottom |-> IF rows # {} THEN Max(rows) ELSE Height(alpha),
        left   |-> IF cols # {} THEN Min(cols) ELSE 0,
        right  |-> IF cols # {} THEN Max(cols) ELSE Width(alpha)]

\* The "20% border" fallback: 0.2, 0.2, 0.6, 0.6.
FallbackArea ==
    [left_ratio |-> <<1, 5>>, top_ratio |-> <<1, 5>>,
     width_ratio |-> <<3, 5>>, height_ratio |-> <<3, 5>>]

\* scanned_area with the width and height ratios taken from right and bottom
\* alone (the subtraction of left and top forgotten).
scanned_area_noSubtract(alpha) ==
    LET s == scan(alpha)
    IN [left_ratio   |-> <<s.left, Width(alpha)>>,
        top_ratio    |-> <<s.top, Height(alpha)>>,
        width_ratio  |-> <<s.right, Width(alpha)>>,
        height_ratio |-> <<s.bottom, Height(alpha)>>]

\* The ratios stored for a decoded image with a non-empty bbox.
scanned_area(alpha) ==
    LET s == scan(alpha)
    IN [left_ratio   |-> <<s.left, Width(alpha)>>,
        top_ratio    |-> <<s.top, Height(alpha)>>,
        width_ratio  |-> <<s.right - s.left, Width(alpha)>>,
        height_ratio |-> <<s.bottom - s.top, Height(alpha)>>]

\* The entry calculate_frame_photo_area stores for a file.
photo_area(file) ==
    IF ~file.decodes THEN FallbackArea              \* except Exception
    ELSE IF getbbox(file.alpha) # <<>> THEN scanned_area(file.alpha)
    ELSE FallbackArea

\* calculate_frame_photo_area without its except clause: on a file that does
\* not decode the error leaves the method before anything is stored.
calculate_frame_photo_area_noExcept(areas, frame_path) ==
    IF ~frame_files[frame_path].decodes THEN areas
    ELSE [p \in (DOMAIN areas) \cup {frame_path} |->
             IF p = frame_path THEN photo_area(frame_files[frame_path])
             ELSE areas[p]]

\* self.frame_photo_areas after calculate_frame_photo_area(frame_path).
calculate_frame_photo_area(areas, frame_path) ==
    [p \in (DOMAIN areas) \cup {frame_path} |->
        IF p = frame_path THEN photo_area(frame_files[frame_path])
        ELSE areas[p]]

\* for frame_path in self.frames: self.calculate_frame_photo_area(frame_path)
RECURSIVE calculate_all(_, _)
calculate_all(areas, paths) ==
    IF paths = <<>> THEN areas
    ELSE calculate_all(calculate_frame_photo_area(areas, Head(paths)), Tail(paths))

\* The empty dict {}.
EmptyDict == [p \in {} |-> FallbackArea]

(***************************************************************************)
(* __init__: load_frames, then load_images.                                *)
(***************************************************************************)
\* glob.glob over the four patterns: the matching files of a folder.
glob(files) == DOMAIN files

\* What a handler that is not paintEvent leaves in the observation variables.
Ran(h, r) ==
    /\ handler' = h
    /\ raised' = r
    /\ paint_mode' = "none"
    /\ photo_drawn' = FALSE

LoadFrames ==
    /\ pc = "load_frames"
    /\ pc' = "load_images"
    /\ IF ~frames_folder_exists
       THEN UNCHANGED <<frames, use_custom_frame, frame_photo_areas>>
       ELSE /\ frames' = sorted(glob(frame_files))
            /\ IF frames' = <<>>
               THEN /\ use_custom_frame' = FALSE
                    /\ UNCHANGED frame_photo_areas
               ELSE /\ frame_photo_areas' =
                          calculate_all(frame_photo_areas, frames')
                    /\ UNCHANGED use_custom_frame
    /\ Ran("load_frames", "none")
    /\ UNCHANGED <<diskVars, current_frame_index, photoVars, flagVars,
                   mouseVars, geomVars, coverVars>>

\* The fields as __init__ sets them before it calls load_frames.
InitFields ==
    /\ pc = "load_frames"
    /\ frames = <<>>
    /\ current_frame_index = 0
    /\ use_custom_frame = TRUE
    /\ frame_photo_areas = EmptyDict
    /\ images = <<>>
    /\ index = 0
    /\ index_trail = <<0>>
    /\ is_locked = FALSE
    /\ is_topmost = TRUE
    /\ click_through = FALSE
    /\ attached_to_desktop = FALSE
    /\ dragging = FALSE
    /\ drag_offset = <<0, 0>>
    /\ resizing = "unset"
    /\ resize_origin = <<>>
    /\ start_size = <<>>
    /\ win_pos = <<0, 0>>
    /\ win_size = <<InitialWidth, InitialHeight>>
    /\ handler = "__init__"
    /\ raised = "none"
    /\ paint_mode = "none"
    /\ photo_drawn = FALSE

\* The cover-scaling variables outside the cover-scaling specification.
NoCover ==
    /\ photo_rect_size = <<>>
    /\ pix_size = <<>>
    /\ scaled_size = <<>>
    /\ crop = <<>>

(***************************************************************************)
(* The detector on every small frame image: one frame file in the Frames   *)
(* folder, of any size up to MaxW x MaxH and any alpha grid.               *)
(***************************************************************************)
InitDetect ==
    /\ InitFields
    /\ NoCover
    /\ frames_folder_exists = TRUE
    /\ \E w \in 1..MaxW, h \in 1..MaxH :
         \E a \in [1..h -> [1..w -> AlphaValues]] :
            frame_files = [p \in {1} |-> ImageFile(a)]

NextDetect == LoadFrames

SpecDetect == InitDetect /\ [][NextDetect]_vars

(***************************************************************************)
(* Image handling: load_images, next_image, next_frame.                    *)
(***************************************************************************)
\* The photo files a pictures folder can hold (the files the glob matches).
Photos == 1..MaxPhotos

\* How many index values the history keeps: a full cycle and its start.
TrailLen == MaxPhotos + 1

\* l with x appended, cut to its last n elements.
AppendLast(l, x, n) ==
    LET a == Append(l, x)
    IN IF Len(a) <= n THEN a ELSE SubSeq(a, Len(a) - n + 1, Len(a))

\* load_images without the reset of self.index.
load_images_keepsIndex(content) ==
    [images |-> sorted(content), index |-> index]

\* load_images on a folder whose matching files are content.
load_images(content) ==
    [images |-> sorted(content), index |-> 0]

\* next_image past its guard: self.index = (self.index + 1) % len(self.images)
next_image_advance ==
    IF Len(images) = 0
    THEN [index |-> index, raised |-> "ZeroDivisionError"]
    ELSE [index |-> (index + 1) % Len(images), raised |-> "none"]

\* next_image wrapping one step late.
next_image_lateWrap ==
    IF images = <<>> THEN [index |-> index, raised |-> "none"]
    ELSE [index |-> IF index + 1 > Len(images) THEN 0 ELSE index + 1,
          raised |-> "none"]

next_image ==
    IF images = <<>> THEN [index |-> index, raised |-> "none"]
    ELSE next_image_advance

\* next_frame past its guard.
next_frame_advance ==
    IF Len(frames) = 0
    THEN [current_frame_index |-> current_frame_index,
          frame_photo_areas |-> frame_photo_areas,
          raised |-> "ZeroDivisionError"]
    ELSE LET i == (current_frame_index + 1) % Len(frames)
             current_frame == frames[i + 1]
         IN [current_frame_index |-> i,
             frame_photo_areas |->
                 IF current_frame \notin DOMAIN frame_photo_areas
                 THEN calculate_frame_photo_area(frame_photo_areas, current_frame)
                 ELSE frame_photo_areas,
             raised |-> "none"]

\* next_frame without the guard on an empty list.
next_frame_noGuard == next_frame_advance

next_frame ==
    IF frames = <<>>
    THEN [current_frame_index |-> current_frame_index,
          frame_photo_areas |-> frame_photo_areas,
          raised |-> "none"]
    ELSE next_frame_advance

\* self.load_images() in __init__, on the default folder.
LoadImages ==
    /\ pc = "load_images"
    /\ pc' = "running"
    /\ \E content \in SUBSET Photos :
          LET r == load_images(content)
          IN /\ images' = r.images
             /\ index' = r.index
             /\ index_trail' = <<r.index>>
    /\ Ran("load_images", "none")
    /\ UNCHANGED <<diskVars, frameVars, flagVars, mouseVars, geomVars, coverVars>>

\* The effect of a call of next_image.
NextImageBy(h) ==
    /\ pc = "running"
    /\ LET r == next_image
       IN /\ index' = r.index
          /\ index_trail' = AppendLast(index_trail, r.index, TrailLen)
          /\ Ran(h, r.raised)
    /\ UNCHANGED <<pc, images, diskVars, frameVars, flagVars, mouseVars,
                   geomVars, coverVars>>

\* self.timer.timeout.connect(self.next_image)
TimerTick == NextImageBy("next_image")

\* Context menu: "Next picture" calls next_image.
MenuNextPicture == NextImageBy("next_image")

\* The effect of a call of next_frame.
NextFrameBy(h) ==
    /\ pc = "running"
    /\ LET r == next_frame
       IN /\ current_frame_index' = r.current_frame_index
          /\ frame_photo_areas' = r.frame_photo_areas
          /\ Ran(h, r.raised)
    /\ UNCHANGED <<pc, frames, use_custom_frame, diskVars, photoVars, flagVars,
                   mouseVars, geomVars, coverVars>>

\* Context menu: "Next frame", offered only when there are frames.
MenuNextFrame ==
    /\ frames # <<>>
    /\ NextFrameBy("next_frame")

\* A direct call of the method next_frame, in any state of the widget.
CallNextFrame == NextFrameBy("next_frame")

\* Context menu: "Use custom frame", offered only when there are frames.
MenuUseCustomFrame ==
    /\ pc = "running"
    /\ frames # <<>>
    /\ use_custom_frame' = ~use_custom_frame
    /\ Ran("open_context_menu", "none")
    /\ UNCHANGED <<pc, frames, current_frame_index, frame_photo_areas, diskVars,
                   photoVars, flagVars, mouseVars, geomVars, coverVars>>

\* Context menu: "Set pictures folder...": the dialog is cancelled (folder is
\* the empty string) or accepted with a folder of any content, which
\* load_images then scans.
MenuSetFolder ==
    /\ pc = "running"
    /\ \/ /\ UNCHANGED photoVars
          /\ Ran("open_context_menu", "none")
       \/ \E content \in SUBSET Photos :
             LET r == load_images(content)
             IN /\ images' = r.images
                /\ index' = r.index
                /\ index_trail' = <<r.index>>
                /\ Ran("act_folder", "none")
    /\ UNCHANGED <<pc, diskVars, frameVars, flagVars, mouseVars, geomVars,
                   coverVars>>

\* Context menu: the four checkable flags (isChecked() after the click is the
\* negation of the value the menu was built with).
MenuAlwaysOnTop ==
    /\ pc = "running"
    /\ is_topmost' = ~is_topmost
    /\ Ran("open_context_menu", "none")
    /\ UNCHANGED <<pc, is_locked, click_through, attached_to_desktop, diskVars,
                   frameVars, photoVars, mouseVars, geomVars, coverVars>>

MenuLock ==
    /\ pc = "running"
    /\ is_locked' = ~is_locked
    /\ Ran("open_context_menu", "none")
    /\ UNCHANGED <<pc, is_topmost, click_through, attached_to_desktop, diskVars,
                   frameVars, photoVars, mouseVars, geomVars, coverVars>>

MenuClickThrough ==
    /\ pc = "running"
    /\ click_through' = ~click_through
    /\ Ran("open_context_menu", "none")
    /\ UNCHANGED <<pc, is_locked, is_topmost, attached_to_desktop, diskVars,
                   frameVars, photoVars, mouseVars, geomVars, coverVars>>

MenuAttach ==
    /\ pc = "running"
    /\ attached_to_desktop' = ~attached_to_desktop
    /\ Ran("open_context_menu", "none")
    /\ UNCHANGED <<pc, is_locked, is_topmost, click_through, diskVars,
                   frameVars, photoVars, mouseVars, geomVars, coverVars>>

\* Context menu: "Exit" ends the event loop.
MenuExit ==
    /\ pc = "running"
    /\ pc' = "exited"
    /\ Ran("open_context_menu", "none")
    /\ UNCHANGED <<diskVars, frameVars, photoVars, flagVars, mouseVars,
                   geomVars, coverVars>>

(***************************************************************************)
(* Painting: get_current_frame_pixmap, current_pixmap, paintEvent.         *)
(* A pixmap getter gives "pixmap", "None", or the exception it raises.     *)
(***************************************************************************)
\* get_current_frame_pixmap past its guard: the list access is outside the
\* try, the decoding inside it.
frame_pixmap_decode ==
    IF current_frame_index >= Len(frames) THEN "IndexError"
    ELSE IF frame_files[frames[current_frame_index + 1]].decodes THEN "pixmap"
    ELSE "None"

\* get_current_frame_pixmap with the guard on use_custom_frame alone.
get_current_frame_pixmap_noEmptyCheck ==
    IF ~use_custom_frame THEN "None" ELSE frame_pixmap_decode

get_current_frame_pixmap ==
    IF ~use_custom_frame \/ frames = <<>> THEN "None" ELSE frame_pixmap_decode

\* current_pixmap; photo_ok is whether the photo file decodes.
current_pixmap(photo_ok) ==
    IF images = <<>> THEN "None"
    ELSE IF index >= Len(images) THEN "IndexError"
    ELSE IF photo_ok THEN "pixmap"
    ELSE "None"

\* paintEvent: the mode it draws in, whether it draws the photo, and the
\* exception it raises.
paintEvent(photo_ok) ==
    LET frame_pix == get_current_frame_pixmap
        pix == current_pixmap(photo_ok)
    IN IF frame_pix = "IndexError"
       THEN [mode |-> "none", photo |-> FALSE, raised |-> "IndexError"]
       ELSE IF frame_pix = "pixmap" /\ use_custom_frame
       THEN IF current_frame_index >= Len(frames)   \* self.frames[...]
            THEN [mode |-> "custom", photo |-> FALSE, raised |-> "IndexError"]
            ELSE [mode |-> "custom", photo |-> pix = "pixmap",
                  raised |-> IF pix = "IndexError" THEN pix ELSE "none"]
       ELSE [mode |-> "procedural", photo |-> pix = "pixmap",
             raised |-> IF pix = "IndexError" THEN pix ELSE "none"]

PaintEvent ==
    /\ pc = "running"
    /\ \E photo_ok \in BOOLEAN :
          LET r == paintEvent(photo_ok)
          IN /\ handler' = "paintEvent"
             /\ raised' = r.raised
             /\ paint_mode' = r.mode
             /\ photo_drawn' = r.photo
    /\ UNCHANGED <<pc, diskVars, frameVars, photoVars, flagVars, mouseVars,
                   geomVars, coverVars>>

(***************************************************************************)
(* The widget: construction, then the event loop (timer, menu, paint).     *)
(***************************************************************************)
\* The image files a Frames folder holds in the model: an undecodable file
\* and a frame image with a transparent cutout.
SampleFrameFiles ==
    {CorruptFile,
     ImageFile(<<<<255, 0, 0>>, <<255, 0, 0>>>>)}

Init ==
    /\ InitFields
    /\ NoCover
    /\ frames_folder_exists \in BOOLEAN
    /\ IF frames_folder_exists
       THEN \E paths \in SUBSET (1..MaxFrames) :
               frame_files \in [paths -> SampleFrameFiles]
       ELSE frame_files = <<>>

Next ==
    \/ LoadFrames
    \/ LoadImages
    \/ TimerTick
    \/ MenuNextPicture
    \/ MenuNextFrame
    \/ CallNextFrame
    \/ MenuUseCustomFrame
    \/ MenuSetFolder
    \/ MenuAlwaysOnTop
    \/ MenuLock
    \/ MenuClickThrough
    \/ MenuAttach
    \/ MenuExit
    \/ PaintEvent

Spec == Init /\ [][Next]_vars

(***************************************************************************)
(* Dragging and resizing: mousePressEvent, mouseMoveEvent,                 *)
(* mouseReleaseEvent.  Points and sizes are pairs <<x, y>>.                *)
(***************************************************************************)
\* The global mouse positions of the model: one over the body of the window
\* as first shown, one over its bottom-right grip.
GlobalPoints == {<<100, 100>>, <<500, 360>>}

Buttons == {"LeftButton", "RightButton"}

PyMax(a, b) == IF a >= b THEN a ELSE b

\* e.pos(): the position relative to the widget.
LocalPos(g) == <<g[1] - win_pos[1], g[2] - win_pos[2]>>

\* The press lands on the widget.
OnWidget(g) ==
    /\ 0 <= LocalPos(g)[1] /\ LocalPos(g)[1] < win_size[1]
    /\ 0 <= LocalPos(g)[2] /\ LocalPos(g)[2] < win_size[2]

\* The fields mousePressEvent leaves alone.
MouseFields ==
    [dragging |-> dragging, drag_offset |-> drag_offset, resizing |-> resizing,
     resize_origin |-> resize_origin, start_size |-> start_size]

\* start_resize(global_pos)
start_resize(g) ==
    [MouseFields EXCEPT !.resizing = "True", !.resize_origin = g,
                        !.start_size = win_size]

mousePressEvent(button, g) ==
    IF is_locked \/ click_through THEN MouseFields
    ELSE IF button = "LeftButton"
    THEN IF /\ LocalPos(g)[1] > win_size[1] - GripSize
            /\ LocalPos(g)[2] > win_size[2] - GripSize
         THEN start_resize(g)
         ELSE [MouseFields EXCEPT !.dragging = TRUE,
                                  !.drag_offset = <<g[1] - win_pos[1],
                                                    g[2] - win_pos[2]>>]
    ELSE MouseFields

\* mouseMoveEvent past its guard.
mouseMoveEvent_unlocked(g) ==
    IF resizing = "True"       \* hasattr(self, "_resizing") and self._resizing
    THEN [win_pos |-> win_pos,
          win_size |-> <<PyMax(MinWidth, start_size[1] + (g[1] - resize_origin[1])),
                         PyMax(MinHeight, start_size[2] + (g[2] - resize_origin[2]))>>]
    ELSE IF dragging
    THEN [win_pos |-> <<g[1] - drag_offset[1], g[2] - drag_offset[2]>>,
          win_size |-> win_size]
    ELSE [win_pos |-> win_pos, win_size |-> win_size]

\* mouseMoveEvent with the guard on click_through alone.
mouseMoveEvent_ignoresLock(g) ==
    IF click_through THEN [win_pos |-> win_pos, win_size |-> win_size]
    ELSE mouseMoveEvent_unlocked(g)

\* The window position and size after mouseMoveEvent.
mouseMoveEvent(g) ==
    IF is_locked \/ click_through
    THEN [win_pos |-> win_pos, win_size |-> win_size]
    ELSE mouseMoveEvent_unlocked(g)

MousePress ==
    /\ pc = "running"
    /\ \E button \in Buttons, g \in GlobalPoints :
          /\ OnWidget(g)
          /\ LET r == mousePressEvent(button, g)
             IN /\ dragging' = r.dragging
                /\ drag_offset' = r.drag_offset
                /\ resizing' = r.resizing
                /\ resize_origin' = r.resize_origin
                /\ start_size' = r.start_size
    /\ Ran("mousePressEvent", "none")
    /\ UNCHANGED <<pc, diskVars, frameVars, photoVars, flagVars, geomVars,
                   coverVars>>

MouseMove ==
    /\ pc = "running"
    /\ \E g \in GlobalPoints :
          LET r == mouseMoveEvent(g)
          IN /\ win_pos' = r.win_pos
             /\ win_size' = r.win_size
    /\ Ran("mouseMoveEvent", "none")
    /\ UNCHANGED <<pc, diskVars, frameVars, photoVars, flagVars, mouseVars,
                   coverVars>>

MouseRelease ==
    /\ pc = "running"
    /\ dragging' = FALSE
    /\ resizing' = "False"
    /\ Ran("mouseReleaseEvent", "none")
    /\ UNCHANGED <<pc, drag_offset, resize_origin, start_size, diskVars,
                   frameVars, photoVars, flagVars, geomVars, coverVars>>

(***************************************************************************)
(* The widget with its mouse handlers, started on a Frames folder that     *)
(* holds one frame.                                                        *)
(***************************************************************************)
InitMouse ==
    /\ InitFields
    /\ NoCover
    /\ frames_folder_exists = TRUE
    /\ frame_files = [p \in {1} |-> ImageFile(<<<<255, 0, 0>>, <<255, 0, 0>>>>)]

NextMouse ==
    \/ Next
    \/ MousePress
    \/ MouseMove
    \/ MouseRelease

SpecMouse == InitMouse /\ [][NextMouse]_vars

(***************************************************************************)
(* Cover scaling of the photo in paintEvent (both modes):                  *)
(*   scaled = pix.scaled(photo_rect.size(), KeepAspectRatioByExpanding)    *)
(*   x = (scaled.width() - photo_rect.width()) // 2, y likewise            *)
(*   crop = scaled.copy(x, y, photo_rect.width(), photo_rect.height())     *)
(***************************************************************************)
\* QSize.scaled in mode KeepAspectRatio (fit inside), for comparison.
scaled_keepAspectRatio(W, H, w, h) ==
    LET rw == (H * w) \div h
        sz == IF rw <= W THEN <<rw, H>> ELSE <<W, (W * h) \div w>>
    IN <<PyMax(sz[1], 1), PyMax(sz[2], 1)>>

\* pix.scaled(QSize(W, H), KeepAspectRatioByExpanding) of a w x h pixmap:
\* Qt's integer QSize.scaled, each side then at least 1.
scaled(W, H, w, h) ==
    LET rw == (H * w) \div h
        sz == IF rw >= W THEN <<rw, H>> ELSE <<W, (W * h) \div w>>
    IN <<PyMax(sz[1], 1), PyMax(sz[2], 1)>>

PyMin(a, b) == IF a <= b THEN a ELSE b

\* The offsets x, y and the size of scaled.copy(x, y, W, H), which is the
\* part of the rectangle that lies inside the sw x sh pixmap.
centre_crop(W, H, sw, sh) ==
    LET x == (sw - W) \div 2
        y == (sh - H) \div 2
    IN [x |-> x, y |-> y,
        width  |-> PyMax(0, PyMin(x + W, sw) - PyMax(x, 0)),
        height |-> PyMax(0, PyMin(y + H, sh) - PyMax(y, 0))]

\* The "if pix:" block of paintEvent, for a photo that decoded.
DrawPhoto ==
    /\ pc = "running"
    /\ images # <<>>
    /\ scaled_size = <<>>
    /\ scaled_size' = scaled(photo_rect_size[1], photo_rect_size[2],
                             pix_size[1], pix_size[2])
    /\ crop' = centre_crop(photo_rect_size[1], photo_rect_size[2],
                           scaled_size'[1], scaled_size'[2])
    /\ handler' = "paintEvent"
    /\ UNCHANGED <<pc, diskVars, frameVars, photoVars, flagVars, mouseVars,
                   geomVars, raised, paint_mode, photo_drawn, photo_rect_size,
                   pix_size>>

\* The widget constructed and drawing, once, a decoded photo of any size up
\* to MaxDim x MaxDim into a photo rectangle of any size up to MaxDim x MaxDim.
InitCover ==
    /\ InitFields
    /\ frames_folder_exists = FALSE
    /\ frame_files = <<>>
    /\ photo_rect_size \in (1..MaxDim) \X (1..MaxDim)
    /\ pix_size \in (1..MaxDim) \X (1..MaxDim)
    /\ scaled_size = <<>>
    /\ crop = <<>>

NextCover ==
    \/ LoadFrames
    \/ LoadImages
    \/ DrawPhoto

SpecCover == InitCover /\ [][NextCover]_vars

(***************************************************************************)
(* Properties of the detector (SpecDetect).                                *)
(***************************************************************************)
\* Equality of two float ratios kept as pairs.
RatioEq(a, b) == a[1] * b[2] = b[1] * a[2]

AreaEq(a, b) ==
    /\ RatioEq(a.left_ratio, b.left_ratio)
    /\ RatioEq(a.top_ratio, b.top_ratio)
    /\ RatioEq(a.width_ratio, b.width_ratio)
    /\ RatioEq(a.height_ratio, b.height_ratio)

\* The frame files whose aperture has been stored.
Processed == DOMAIN frame_photo_areas

FullyOpaque(file) ==
    /\ file.decodes
    /\ \A r \in 1..Height(file.alpha), c \in 1..Width(file.alpha) :
          file.alpha[r][c] = 255

\* C1: for every frame image whose pixels are all fully opaque,
\* calculate_frame_photo_area stores exactly the fallback aperture
\* 0.2, 0.2, 0.6, 0.6.
C1_OpaqueFrameStoresFallback ==
    \A p \in Processed :
        FullyOpaque(frame_files[p]) => AreaEq(frame_photo_areas[p], FallbackArea)

\* The image is opaque everywhere except the fully transparent rectangle of
\* columns [l, r) and rows [t, b).
IsCutout(alpha, l, r, t, b) ==
    \A rr \in 0..(Height(alpha) - 1), cc \in 0..(Width(alpha) - 1) :
        alpha[rr + 1][cc + 1] =
            IF l <= cc /\ cc < r /\ t <= rr /\ rr < b THEN 0 ELSE 255

\* ratio * dim differs from px by less than one pixel.
WithinRounding(ratio, dim, px) ==
    /\ ratio[1] * dim - px * ratio[2] < ratio[2]
    /\ px * ratio[2] - ratio[1] * dim < ratio[2]

\* C2: for every frame image that is opaque except one axis-aligned
\* rectangle of fully transparent pixels, columns [l, r) and rows [t, b),
\* the stored ratios give the pixel rectangle (l, t, r - l, b - t) up to
\* sub-pixel rounding.
C2_CutoutRectangleRecovered ==
    \A p \in Processed :
        LET f == frame_files[p]
            a == frame_photo_areas[p]
        IN f.decodes =>
           \A l \in 0..(Width(f.alpha) - 1), t \in 0..(Height(f.alpha) - 1) :
              \A r \in (l + 1)..Width(f.alpha), b \in (t + 1)..Height(f.alpha) :
                 IsCutout(f.alpha, l, r, t, b) =>
                    /\ WithinRounding(a.left_ratio, Width(f.alpha), l)
                    /\ WithinRounding(a.top_ratio, Height(f.alpha), t)
                    /\ WithinRounding(a.width_ratio, Width(f.alpha), r - l)
                    /\ WithinRounding(a.height_ratio, Height(f.alpha), b - t)

\* 0 <= n / d <= 1
RatioIn01(q) == q[2] > 0 /\ 0 <= q[1] /\ q[1] <= q[2]

\* a + b <= 1
RatioSumLe1(a, b) == a[1] * b[2] + b[1] * a[2] <= a[2] * b[2]

\* C10: for every frame image the detector processes, every stored ratio is
\* in [0, 1], left_ratio + width_ratio <= 1 and top_ratio + height_ratio
\* <= 1; the scan yields 0 <= left <= right <= width and
\* 0 <= top <= bottom <= height.
C10_ApertureInsideFrame ==
    \A p \in Processed :
        LET f == frame_files[p]
            a == frame_photo_areas[p]
        IN /\ RatioIn01(a.left_ratio) /\ RatioIn01(a.top_ratio)
           /\ RatioIn01(a.width_ratio) /\ RatioIn01(a.height_ratio)
           /\ RatioSumLe1(a.left_ratio, a.width_ratio)
           /\ RatioSumLe1(a.top_ratio, a.height_ratio)
           /\ (f.decodes /\ getbbox(f.alpha) # <<>>) =>
                 LET s == scan(f.alpha)
                 IN /\ 0 <= s.left /\ s.left <= s.right
                    /\ s.right <= Width(f.alpha)
                    /\ 0 <= s.top /\ s.top <= s.bottom
                    /\ s.bottom <= Height(f.alpha)

\* A processed frame whose scan found transparent rows and columns that
\* start past the first column and span more than one column.
C10_Witness ==
    \E p \in Processed :
        LET f == frame_files[p]
        IN /\ f.decodes /\ getbbox(f.alpha) # <<>>
           /\ transparent_rows(f.alpha) # {}
           /\ scan(f.alpha).left > 0
           /\ scan(f.alpha).right > scan(f.alpha).left

(***************************************************************************)
(* Properties of the widget (Spec).                                        *)
(***************************************************************************)
\* C3: if at startup the Frames directory is missing, or holds no matching
\* image file, use_custom_frame is false once __init__ has run load_frames,
\* and stays false: no frames implies use_custom_frame false.
C3_NoFramesNoCustomFrame ==
    (pc # "load_frames" /\ frames = <<>>) => ~use_custom_frame

\* The current frame file exists and decodes.
CurrentFrameDecodes ==
    /\ current_frame_index < Len(frames)
    /\ frame_files[frames[current_frame_index + 1]].decodes

\* C4: a paint uses custom-frame mode only when use_custom_frame is true,
\* the frame list is non-empty and the current frame file decodes; in every
\* other case it uses procedural mode; it never raises.
C4_PaintModeSelection ==
    handler = "paintEvent" =>
        /\ raised = "none"
        /\ paint_mode =
              IF use_custom_frame /\ frames # <<>> /\ CurrentFrameDecodes
              THEN "custom" ELSE "procedural"

\* A paint that fell through to procedural mode because the current frame,
\* though custom frames are on, does not decode.
C4_Witness ==
    /\ handler = "paintEvent"
    /\ paint_mode = "procedural"
    /\ use_custom_frame
    /\ frames # <<>>
    /\ ~CurrentFrameDecodes

\* Every index the history holds is followed, len(images) calls later, by
\* the same index.
TrailCycles ==
    images # <<>> =>
        \A k \in 1..Len(index_trail) :
            k + Len(images) <= Len(index_trail) =>
                index_trail[k + Len(images)] = index_trail[k]

\* C6: on a non-empty photo list of length n, n calls of next_image with no
\* rescan in between bring index back to where it started, from every
\* starting index; each call moves index to (index + 1) mod n and leaves the
\* list unchanged.
C6_NextImageCycles ==
    /\ []TrailCycles
    /\ [][(handler' = "next_image" /\ images # <<>>) =>
             /\ index' = (index + 1) % Len(images)
             /\ images' = images]_vars

\* A full cycle of next_image calls that started at an index other than 0.
C6_Witness ==
    /\ handler = "next_image"
    /\ Len(images) >= 2
    /\ Len(index_trail) > Len(images)
    /\ index_trail[Len(index_trail) - Len(images)] # 0
    /\ index = index_trail[Len(index_trail) - Len(images)]

\* C7: on an empty frame list next_frame raises nothing and leaves
\* current_frame_index, frames, the aperture cache and use_custom_frame
\* unchanged; on an empty photo list next_image raises nothing and leaves
\* index and images unchanged.
C7_EmptyListNoOp ==
    [][/\ (handler' = "next_frame" /\ frames = <<>>) =>
             /\ raised' = "none"
             /\ UNCHANGED <<current_frame_index, frames, frame_photo_areas,
                            use_custom_frame>>
       /\ (handler' = "next_image" /\ images = <<>>) =>
             /\ raised' = "none"
             /\ UNCHANGED <<index, images>>]_vars

\* next_frame has run on an empty frame list.
C7_Witness ==
    /\ handler = "next_frame"
    /\ frames = <<>>
    /\ raised = "none"

IndexInRange ==
    IF images = <<>> THEN index = 0
    ELSE 0 <= index /\ index < Len(images)

\* C9: under any interleaving of timer ticks, "Next picture" and "Set
\* pictures folder" (accepted with any content, or cancelled), index is 0
\* when images is empty and otherwise 0 <= index < len(images), so a paint
\* never reads images out of range; an accepted folder choice sets index to
\* 0 and a cancelled one leaves images and index unchanged.
C9_PhotoIndexValid ==
    /\ []IndexInRange
    /\ [][/\ handler' = "act_folder" => index' = 0
          /\ handler' = "open_context_menu" => UNCHANGED <<images, index>>
          /\ handler' = "paintEvent" => raised' # "IndexError"]_vars

\* A folder with no photo has just been chosen.
C9_Witness ==
    /\ handler = "act_folder"
    /\ images = <<>>
    /\ index = 0

\* A call of calculate_frame_photo_area(frame_path) on the present cache
\* adds an entry for frame_path and leaves every other entry as it is.
OnlyOwnEntryWritten(frame_path) ==
    LET after == calculate_frame_photo_area(frame_photo_areas, frame_path)
    IN /\ DOMAIN after = (DOMAIN frame_photo_areas) \cup {frame_path}
       /\ \A q \in (DOMAIN frame_photo_areas) \ {frame_path} :
             after[q] = frame_photo_areas[q]
       /\ ~frame_files[frame_path].decodes =>
             AreaEq(after[frame_path], FallbackArea)

\* C11: a frame file that cannot be opened or decoded raises nothing out of
\* calculate_frame_photo_area: the fallback 0.2, 0.2, 0.6, 0.6 is stored for
\* its path, the entries of the other paths stay as they are, and
\* load_frames goes on with the remaining frames, so that after startup
\* every path in frames has a cache entry.
C11_DecodeFailureStoresFallback ==
    /\ handler = "load_frames" => raised = "none"
    /\ pc # "load_frames" =>
          \A i \in 1..Len(frames) :
             /\ frames[i] \in DOMAIN frame_photo_areas
             /\ ~frame_files[frames[i]].decodes =>
                   AreaEq(frame_photo_areas[frames[i]], FallbackArea)
             /\ frame_photo_areas[frames[i]] = photo_area(frame_files[frames[i]])
    /\ \A p \in DOMAIN frame_files : OnlyOwnEntryWritten(p)

\* load_frames has just processed an undecodable frame followed by a
\* decodable one.
C11_Witness ==
    /\ handler = "load_frames"
    /\ Len(frames) >= 2
    /\ ~frame_files[frames[1]].decodes
    /\ frame_files[frames[2]].decodes
    /\ DOMAIN frame_photo_areas = {frames[1], frames[2]}

(***************************************************************************)
(* Properties of the mouse handlers (SpecMouse).                           *)
(***************************************************************************)
MouseHandlers == {"mousePressEvent", "mouseMoveEvent", "mouseReleaseEvent"}

\* C5: while is_locked is true no mouse press, move or release changes the
\* window position or size, also when the lock was switched on during a
\* drag or resize.
C5_LockedWindowStays ==
    [][(is_locked /\ handler' \in MouseHandlers) =>
          /\ win_pos' = win_pos
          /\ win_size' = win_size]_vars

\* A mouse move has arrived while the window is locked and a drag begun
\* before the lock is still in progress.
C5_Witness ==
    /\ is_locked
    /\ ~click_through
    /\ dragging
    /\ handler = "mouseMoveEvent"

(***************************************************************************)
(* Properties of the cover scaling (SpecCover).                            *)
(***************************************************************************)
\* C8: for every photo rectangle W x H and photo w x h (all >= 1) the scaled
\* size sw x sh has sw >= W and sh >= H, and the centred crop at
\* ((sw - W) // 2, (sh - H) // 2) of size W x H lies inside the scaled
\* image: the drawn photo is exactly W x H.
C8_CoverFillsRect ==
    scaled_size # <<>> =>
        /\ scaled_size[1] >= photo_rect_size[1]
        /\ scaled_size[2] >= photo_rect_size[2]
        /\ crop.x >= 0 /\ crop.y >= 0
        /\ crop.x + photo_rect_size[1] <= scaled_size[1]
        /\ crop.y + photo_rect_size[2] <= scaled_size[2]
        /\ crop.width = photo_rect_size[1]
        /\ crop.height = photo_rect_size[2]

\* A photo scaled wider than the rectangle by an odd number of pixels, so
\* that the crop starts inside it and the halving rounds.
C8_Witness ==
    /\ scaled_size # <<>>
    /\ crop.x > 0
    /\ (scaled_size[1] - photo_rect_size[1]) % 2 = 1
    /\ pix_size[1] # pix_size[2]

====
